---- MODULE Spec2Model ----
(***************************************************************************)
(* Model of lightflow's Dag (src/lightflow/models/dag.py): the graph and   *)
(* slot model built by define(), and the polling scheduler loop of run().  *)
(*                                                                         *)
(* Dag.run is one control thread; the workers that execute dispatched      *)
(* tasks run out of process and may complete between any two reads the     *)
(* scheduler makes of a result handle.  The loop is therefore cut at the   *)
(* points where it reads worker state: one action per visit of the         *)
(* "for task in reversed(tasks)" loop, one per iteration of the inner      *)
(* "for next_task in successors(task)" loop.  The cleanup pass reads only  *)
(* scheduler-owned state and is one action.                                *)
(*                                                                         *)
(* BaseTask, MultiTaskData and the celery result handle are not part of    *)
(* the sources at hand; has_result, is_finished, is_skipped, skip() and    *)
(* add_dataset() follow the data model of the specification.  A result     *)
(* handle that reports finished always carries a well-formed result        *)
(* (payload plus optional limit).                                          *)
(***************************************************************************)
EXTENDS Integers, Sequences, FiniteSets, TLC

\* ------------------------------------------------------------------ tasks
\* The task objects that exist (identity is the number), and their names.
Tasks == {1, 2, 3}

NameOf(t) == CASE t = 1 -> "first" [] t = 2 -> "second" [] OTHER -> "third"

Names == {NameOf(t) : t \in Tasks}

\* Python's None where a string is expected (slot label, dag name).
NoneVal == "<None>"

\* ---------------------------------------------------------------- schemas
\* A schema maps a parent to its children: None, a single child, a list of
\* children, or a dict child -> slot label.
ChildNone == [kind |-> "none", items |-> {}, labels |-> {}]

ChildSingle(c) == [kind |-> "single", items |-> {c}, labels |-> {}]

ChildList(cs) == [kind |-> "list", items |-> cs, labels |-> {}]

\* ls is a set of <<child, label>> pairs, one per child.
ChildDict(ls) == [kind |-> "dict", items |-> {l[1] : l \in ls}, labels |-> ls]

\* The schemas define() is called with; a schema is a set of
\* <<parent, children>> pairs with one pair per parent.
Schemas ==
    << { <<1, ChildList({2})>>, <<2, ChildList({3})>> },
       { <<1, ChildList({2, 3})>>, <<2, ChildSingle(3)>> },
       { <<1, ChildDict({<<3, "a">>})>>, <<2, ChildDict({<<3, "b">>})>> },
       { <<1, ChildDict({<<3, "a">>})>>, <<2, ChildList({3})>> },
       { <<1, ChildDict({<<2, "">>, <<3, NoneVal>>})>> },
       { <<1, ChildNone>>, <<2, ChildList({})>>, <<3, ChildDict({})>> },
       { <<1, ChildList({2})>>, <<2, ChildList({1})>>, <<3, ChildNone>> },
       { <<1, ChildSingle(1)>> } >>

\* How many times define() is called on the dag before it is run.
MaxDefines == 2

\* The count of reads of the stop signal is kept up to this number.
MaxSignalReads == 2

\* Dag objects in existence at most: the template and its copies.
MaxDags == 3

\* Operations made on the dags besides copying them, at most.
MaxMutations == 2

\* The orders in which the graph library may iterate nodes (dict order).
Orders == { <<1, 2, 3>>, <<3, 2, 1>>, <<2, 1, 3>> }

\* result_expires of the celery configuration: 0 is expire-immediately.
ExpiresChoices == {0, 3600}

\* config is None or a configuration object.
ConfigChoices == {"None", "config"}

\* propagate_skip of the tasks, fixed when the tasks are constructed.
PropagateChoices ==
    { [t \in Tasks |-> TRUE], [t \in Tasks |-> t # 2] }

\* The initial data handed to run() (data=...).
DataChoices == { <<[name |-> "<initial>", data |-> 0, aliases |-> <<>>]>> }

VARIABLES
    graph_nodes,        \* self._graph: nodes
    graph_edges,        \* self._graph: edges <<parent, child>>
    slots,              \* self._slots: <<child, parent>> -> label
    defines,            \* define() calls made so far
    propagate_skip,     \* task.propagate_skip
    config,             \* run() argument
    result_expires,     \* celery_app.conf.result_expires
    data,               \* run() argument
    order,              \* iteration order of the graph library
    pc,                 \* position of Dag.run
    error,              \* exception Dag.run raised
    tasks,              \* local list "tasks" (the active set)
    cleanup,            \* local list "cleanup"
    stopped,            \* local "stopped"
    is_stopped,         \* signal.is_stopped, owned by the environment
    it,                 \* index of the reversed(tasks) iterator
    cur,                \* "task" of the current visit
    si,                 \* position in successors(task)
    all_successors_queued,
    has_result,         \* task.celery_result is not None
    is_finished,        \* result handle reports finished
    is_skipped,         \* task.is_skipped
    limit,              \* task.celery_result.result.limit
    dag_name,           \* task.dag_name
    workflow_name,      \* task.workflow_name
    send_count,         \* send_task calls per task
    sent_data,          \* payload of the send_task call
    forget_count,       \* forget() calls per task
    reads,              \* results read by the step just taken
    skip_calls,         \* skip() calls made: <<target, cause, by>>
    signal_reads,       \* reads of signal.is_stopped made by run(), capped
    signal_read,        \* whether the step just taken read signal.is_stopped
    left_active,        \* tasks that tasks.remove has taken off the list
    dag_objs,           \* the Dag objects: name, _copy_counter, _graph, _slots
    graph_objs,         \* the graph objects: nodes and edges over task objects
    slot_objs,          \* the slot map objects: <<child, parent>> -> label
    task_objs,          \* the task objects: which task, dag_name, has_result
    actor,              \* the dag the step just taken operated on (0: none)
    mutations           \* operations made on dags so far, capped

vars == << graph_nodes, graph_edges, slots, defines, propagate_skip, config,
           result_expires, data, order, pc, error, tasks, cleanup, stopped,
           is_stopped, it, cur, si, all_successors_queued, has_result,
           is_finished, is_skipped, limit, dag_name, workflow_name,
           send_count, sent_data, forget_count, reads, skip_calls,
           signal_reads, signal_read, left_active, dag_objs, graph_objs,
           slot_objs, task_objs, actor, mutations >>

\* The state of the one dag that run() drives.
runVars == << graph_nodes, graph_edges, slots, defines, propagate_skip,
              config, result_expires, data, order, pc, error, tasks, cleanup,
              stopped, is_stopped, it, cur, si, all_successors_queued,
              has_result, is_finished, is_skipped, limit, dag_name,
              workflow_name, send_count, sent_data, forget_count, reads,
              skip_calls, signal_reads, signal_read, left_active >>

\* The objects that deep copies of a dag create.
cloneVars == << dag_objs, graph_objs, slot_objs, task_objs, actor, mutations >>

graphVars == << graph_nodes, graph_edges, slots, defines >>

runArgs == << config, result_expires, data, order >>

loopVars == << tasks, cleanup, stopped, it, cur, si, all_successors_queued >>

taskVars == << has_result, is_finished, is_skipped, limit >>

nameVars == << dag_name, workflow_name >>

logVars == << send_count, sent_data, forget_count, skip_calls >>

\* The name of this dag and of its workflow.
DagName == "myDag"

WorkflowName == "myWorkflow"

\* --------------------------------------------------------------- helpers
NoLimit == [is_none |-> TRUE, names |-> {}, tasks |-> {}]

\* list.remove(x): drop the first occurrence of x.
RECURSIVE Remove(_, _)
Remove(s, x) ==
    IF s = <<>> THEN <<>>
    ELSE IF Head(s) = x THEN Tail(s)
    ELSE <<Head(s)>> \o Remove(Tail(s), x)

InSeq(s, x) == \E i \in 1..Len(s) : s[i] = x

\* self._graph.successors(node) / predecessors(node), as sets.
SuccSet(n) == {c \in graph_nodes : <<n, c>> \in graph_edges}

PredSet(n) == {p \in graph_nodes : <<p, n>> \in graph_edges}

\* The same as lists, in the library's iteration order.
successors(n) == SelectSeq(order, LAMBDA c : c \in SuccSet(n))

predecessors(n) == SelectSeq(order, LAMBDA p : p \in PredSet(n))

\* nx.is_directed_acyclic_graph: strip nodes without incoming edges until
\* nothing can be stripped; the graph is acyclic iff nothing is left.
RECURSIVE Strip(_, _)
Strip(ns, es) ==
    LET free == {n \in ns : ~\E e \in es : e[2] = n /\ e[1] \in ns}
    IN  IF free = {} THEN ns ELSE Strip(ns \ free, es)

is_directed_acyclic_graph(ns, es) == Strip(ns, es) = {}

\* ----------------------------------------------------------- stop signal
\* Mutant of SamplesSignal: the signal is read on every visit.
SamplesSignalAlways == TRUE

\* "if not stopped:" (dag.py 163): whether this visit reads the signal.
SamplesSignal == ~stopped

\* A visit reads signal.is_stopped if it samples (dag.py 164).
SignalSampled ==
    /\ signal_read' = SamplesSignal
    /\ signal_reads' = IF SamplesSignal /\ signal_reads < MaxSignalReads
                       THEN signal_reads + 1 ELSE signal_reads

\* A step that does not touch the signal.
SignalUntouched ==
    /\ signal_read' = FALSE
    /\ UNCHANGED signal_reads

\* ---------------------------------------------------------------- define
\* Edges add_edge creates for a schema (dag.py 102-103).
SchemaEdges(schema) ==
    UNION { {<<q[1], c>> : c \in q[2].items} : q \in schema }

\* Nodes of the rebuilt graph: edge endpoints (created by add_edge) and the
\* parents whose children are None or empty (add_node, dag.py 110-111).
SchemaNodes(schema) ==
    {e[1] : e \in SchemaEdges(schema)} \cup {e[2] : e \in SchemaEdges(schema)}
        \cup {q[1] : q \in {r \in schema : r[2].items = {}}}

\* The <<child, parent>> -> label entries a schema stores (dag.py 104-109):
\* only a dict gives children[child]; '' and None store nothing.
SchemaSlots(schema) ==
    UNION { { <<<<l[1], q[1]>>, l[2]>> :
                l \in {m \in q[2].labels : m[2] # "" /\ m[2] # NoneVal} } :
            q \in schema }

\* self._slots after the assignments of a schema; entries of earlier
\* define() calls stay (only the graph is cleared, dag.py 95).
SlotsAfter(old, schema) ==
    LET new  == SchemaSlots(schema)
        keys == {n[1] : n \in new}
    IN  [k \in (DOMAIN old) \cup keys |->
            IF k \in keys THEN (CHOOSE n \in new : n[1] = k)[2] ELSE old[k]]

Define(i) ==
    /\ pc = "idle"
    /\ defines < MaxDefines
    /\ graph_nodes' = SchemaNodes(Schemas[i])
    /\ graph_edges' = SchemaEdges(Schemas[i])
    /\ slots' = SlotsAfter(slots, Schemas[i])
    /\ defines' = defines + 1
    /\ reads' = {}
    /\ SignalUntouched
    /\ UNCHANGED left_active
    /\ UNCHANGED cloneVars
    /\ UNCHANGED << propagate_skip, runArgs, pc, error, loopVars, is_stopped,
                    taskVars, nameVars, logVars >>

\* ------------------------------------------------------------ task model
\* task.skip(): set the skip flag.
skip(flags, t) == [flags EXCEPT ![t] = TRUE]

\* Mutant of limit_names: task objects in the limit are not converted.
limit_names_NamesOnly(l) == l.names

\* limit_names (dag.py 208-211): a limit entry is a name or a task.
limit_names(l) == l.names \cup {NameOf(t) : t \in l.tasks}

\* The limits a result may carry: none, or some successors by name, or some
\* successors as task objects.
LimitChoices(n) ==
    {NoLimit}
        \cup {[is_none |-> FALSE, names |-> {NameOf(s) : s \in S}, tasks |-> {}] :
                S \in SUBSET SuccSet(n)}
        \cup {[is_none |-> FALSE, names |-> {}, tasks |-> S] :
                S \in (SUBSET SuccSet(n)) \ {{}}}

\* A worker completes task n: the result handle reports finished.
Finish(n) ==
    /\ has_result[n]
    /\ ~is_finished[n]
    /\ is_finished' = [is_finished EXCEPT ![n] = TRUE]
    /\ \E l \in LimitChoices(n) : limit' = [limit EXCEPT ![n] = l]
    /\ reads' = {}
    /\ SignalUntouched
    /\ UNCHANGED left_active
    /\ UNCHANGED cloneVars
    /\ UNCHANGED << graphVars, propagate_skip, runArgs, pc, error, loopVars,
                    is_stopped, has_result, is_skipped, nameVars, logVars >>

\* The environment raises or clears the stop signal.
SignalStop ==
    /\ ~is_stopped
    /\ is_stopped' = TRUE
    /\ reads' = {}
    /\ SignalUntouched
    /\ UNCHANGED left_active
    /\ UNCHANGED cloneVars
    /\ UNCHANGED << graphVars, propagate_skip, runArgs, pc, error, loopVars,
                    taskVars, nameVars, logVars >>

SignalClear ==
    /\ is_stopped
    /\ is_stopped' = FALSE
    /\ reads' = {}
    /\ SignalUntouched
    /\ UNCHANGED left_active
    /\ UNCHANGED cloneVars
    /\ UNCHANGED << graphVars, propagate_skip, runArgs, pc, error, loopVars,
                    taskVars, nameVars, logVars >>

\* ------------------------------------------------------------- run: start
\* Initial task list: the nodes without predecessors, in the order of the
\* topological sort (dag.py 139-146).
InitialTasks(ord) ==
    SelectSeq(ord, LAMBDA n : n \in graph_nodes /\ PredSet(n) = {})

\* Mutant of Preflight: the configuration is checked first.
PreflightConfigFirst(cfg) ==
    IF cfg = "None" THEN "ConfigNotDefinedError"
    ELSE IF ~is_directed_acyclic_graph(graph_nodes, graph_edges)
    THEN "DirectedAcyclicGraphInvalid"
    ELSE "none"

\* The pre-flight checks of run() (dag.py 128-132).
Preflight(cfg) ==
    IF ~is_directed_acyclic_graph(graph_nodes, graph_edges)
    THEN "DirectedAcyclicGraphInvalid"
    ELSE IF cfg = "None" THEN "ConfigNotDefinedError"
    ELSE "none"

RunStart(cfg, ord, exp, d) ==
    /\ pc = "idle"
    /\ config' = cfg
    /\ order' = ord
    /\ result_expires' = exp
    /\ data' = d
    /\ error' = Preflight(cfg)
    /\ reads' = {}
    /\ IF Preflight(cfg) # "none"
       THEN /\ pc' = "raised"
            /\ UNCHANGED << tasks, nameVars >>
       ELSE /\ pc' = "loop"
            /\ tasks' = InitialTasks(ord)
            /\ workflow_name' = [t \in Tasks |->
                  IF t \in graph_nodes THEN WorkflowName ELSE workflow_name[t]]
            /\ dag_name' = [t \in Tasks |->
                  IF t \in graph_nodes THEN DagName ELSE dag_name[t]]
    /\ SignalUntouched
    /\ UNCHANGED left_active
    /\ UNCHANGED cloneVars
    /\ UNCHANGED << graphVars, propagate_skip, cleanup, stopped, it, cur, si,
                    all_successors_queued, is_stopped, taskVars, logVars >>

\* ----------------------------------------------------------- run: cleanup
\* "for task in cleanup: ... cleanup.remove(task)" (dag.py 155-159): the list
\* iterator holds an index i; after a remove the next element has moved to
\* the index just visited and i has advanced past it.
\* Mutant of Disposable: one successor with a result is enough.
DisposableAny(task) ==
    SuccSet(task) = {} \/ \E s \in SuccSet(task) : has_result[s]

\* "all([s.has_result for s in successors(task)])" (dag.py 156).
Disposable(task) == \A s \in SuccSet(task) : has_result[s]

\* Mutant of CleanupLoop: cleanup.remove sits under "if result_expires == 0".
RECURSIVE CleanupLoopRemoveOnForget(_, _, _)
CleanupLoopRemoveOnForget(cl, i, fc) ==
    IF i > Len(cl) THEN [cleanup |-> cl, forget_count |-> fc]
    ELSE LET task == cl[i] IN
         IF Disposable(task) /\ result_expires = 0
         THEN CleanupLoopRemoveOnForget(Remove(cl, task), i + 1,
                                        [fc EXCEPT ![task] = @ + 1])
         ELSE CleanupLoopRemoveOnForget(cl, i + 1, fc)

RECURSIVE CleanupLoop(_, _, _)
CleanupLoop(cl, i, fc) ==
    IF i > Len(cl) THEN [cleanup |-> cl, forget_count |-> fc]
    ELSE LET task == cl[i] IN
         IF Disposable(task)
         THEN CleanupLoop(Remove(cl, task), i + 1,
                          IF result_expires = 0
                          THEN [fc EXCEPT ![task] = @ + 1] ELSE fc)
         ELSE CleanupLoop(cl, i + 1, fc)

\* "while tasks or cleanup" is false: run() returns.
Exit ==
    /\ pc = "loop"
    /\ tasks = <<>> /\ cleanup = <<>>
    /\ pc' = "done"
    /\ reads' = {}
    /\ SignalUntouched
    /\ UNCHANGED left_active
    /\ UNCHANGED cloneVars
    /\ UNCHANGED << graphVars, propagate_skip, runArgs, error, loopVars,
                    is_stopped, taskVars, nameVars, logVars >>

\* One loop iteration up to the start of the advance pass: the cleanup pass,
\* then reversed(tasks) is created.
CleanupPass ==
    /\ pc = "loop"
    /\ tasks # <<>> \/ cleanup # <<>>
    /\ LET r == CleanupLoop(cleanup, 1, forget_count) IN
         /\ cleanup' = r.cleanup
         /\ forget_count' = r.forget_count
    /\ it' = Len(tasks)
    /\ pc' = "advance"
    /\ reads' = {}
    /\ SignalUntouched
    /\ UNCHANGED left_active
    /\ UNCHANGED cloneVars
    /\ UNCHANGED << graphVars, propagate_skip, runArgs, error, tasks, stopped,
                    cur, si, all_successors_queued, is_stopped, taskVars,
                    nameVars, send_count, sent_data, skip_calls >>

\* ------------------------------------------------------- run: aggregation
\* "task in self._slots": some label is stored for the task.
InSlots(task) == \E k \in DOMAIN slots : k[1] = task

\* Mutant of Aliases: the label is looked up for the swapped pair.
AliasesSwapped(task, pre_task) ==
    IF InSlots(task) /\ <<pre_task, task>> \in DOMAIN slots
    THEN << slots[<<pre_task, task>>] >> ELSE <<>>

\* aliases for the dataset of pre_task (dag.py 182-185); <<>> stands for None.
Aliases(task, pre_task) ==
    IF InSlots(task) THEN << slots[<<task, pre_task>>] >> ELSE <<>>

\* The loop over pre_tasks (dag.py 180-189).  self._slots[task][pre_task]
\* raises KeyError when the task has labels but none for pre_task; reading
\* .result.data raises AttributeError when pre_task has no result handle
\* (celery_result is None) or its result is not there yet (result is None).
RECURSIVE Aggregate(_, _, _)
Aggregate(task, pre, acc) ==
    IF pre = <<>> THEN [error |-> "none", input_data |-> acc]
    ELSE LET pre_task == Head(pre) IN
         IF InSlots(task) /\ <<task, pre_task>> \notin DOMAIN slots
         THEN [error |-> "KeyError", input_data |-> acc]
         ELSE IF ~has_result[pre_task] \/ ~is_finished[pre_task]
         THEN [error |-> "AttributeError", input_data |-> acc]
         ELSE Aggregate(task, Tail(pre),
                  Append(acc, [name |-> NameOf(pre_task), data |-> pre_task,
                               aliases |-> Aliases(task, pre_task)]))

\* The tasks whose result payload an aggregation has read.
ReadBy(input_data) ==
    {input_data[i].data : i \in 1..Len(input_data)}

\* ----------------------------------------------------------- run: advance
\* reversed(tasks) yields tasks[it] while the index is inside the list.
IterHasNext == it >= 1 /\ it <= Len(tasks)

\* Mutant of StoppedAfterSample: the signal is read afresh on every visit.
StoppedNotLatched == is_stopped

\* "if not stopped: stopped = signal.is_stopped" (dag.py 163-164).
StoppedAfterSample == IF SamplesSignal THEN is_stopped ELSE stopped

\* The send_task call (dag.py 172-177, 193-198) unless stopped.
Send(task, payload, st) ==
    IF st
    THEN UNCHANGED << has_result, send_count, sent_data >>
    ELSE /\ has_result' = [has_result EXCEPT ![task] = TRUE]
         /\ send_count' = [send_count EXCEPT ![task] = @ + 1]
         /\ sent_data' = [sent_data EXCEPT ![task] = payload]

\* Visit of a task that was never queued (dag.py 166-198).
VisitPending ==
    /\ pc = "advance"
    /\ IterHasNext
    /\ ~has_result[tasks[it]]
    /\ LET task == tasks[it]
           pre_tasks == predecessors(task)
           agg == Aggregate(task, pre_tasks, <<>>)
       IN  /\ stopped' = StoppedAfterSample
           /\ cur' = task
           /\ it' = it - 1
           /\ IF Len(pre_tasks) = 0
              THEN /\ Send(task, data, StoppedAfterSample)
                   /\ reads' = {}
                   /\ UNCHANGED << pc, error >>
              ELSE /\ reads' = ReadBy(agg.input_data)
                   /\ IF agg.error # "none"
                      THEN /\ pc' = "raised"
                           /\ error' = agg.error
                           /\ UNCHANGED << has_result, send_count, sent_data >>
                      ELSE /\ Send(task, agg.input_data, StoppedAfterSample)
                           /\ UNCHANGED << pc, error >>
    /\ SignalSampled
    /\ UNCHANGED left_active
    /\ UNCHANGED cloneVars
    /\ UNCHANGED << graphVars, propagate_skip, runArgs, tasks, cleanup, si,
                    all_successors_queued, is_stopped, is_finished, is_skipped,
                    limit, nameVars, forget_count, skip_calls >>

\* Visit of a task that is queued and has not finished: nothing to do.
VisitRunning ==
    /\ pc = "advance"
    /\ IterHasNext
    /\ has_result[tasks[it]]
    /\ ~is_finished[tasks[it]]
    /\ stopped' = StoppedAfterSample
    /\ cur' = tasks[it]
    /\ it' = it - 1
    /\ reads' = {}
    /\ SignalSampled
    /\ UNCHANGED left_active
    /\ UNCHANGED cloneVars
    /\ UNCHANGED << graphVars, propagate_skip, runArgs, pc, error, tasks,
                    cleanup, si, all_successors_queued, is_stopped, taskVars,
                    nameVars, logVars >>

\* Visit of a finished task: enter the loop over its successors
\* (dag.py 202-204).
VisitFinished ==
    /\ pc = "advance"
    /\ IterHasNext
    /\ has_result[tasks[it]]
    /\ is_finished[tasks[it]]
    /\ stopped' = StoppedAfterSample
    /\ cur' = tasks[it]
    /\ it' = it - 1
    /\ si' = 1
    /\ all_successors_queued' = TRUE
    /\ pc' = "succ"
    /\ reads' = {}
    /\ SignalSampled
    /\ UNCHANGED left_active
    /\ UNCHANGED cloneVars
    /\ UNCHANGED << graphVars, propagate_skip, runArgs, error, tasks, cleanup,
                    is_stopped, taskVars, nameVars, logVars >>

\* reversed(tasks) is exhausted: back to the while test.
IterEnd ==
    /\ pc = "advance"
    /\ ~IterHasNext
    /\ pc' = "loop"
    /\ reads' = {}
    /\ SignalUntouched
    /\ UNCHANGED left_active
    /\ UNCHANGED cloneVars
    /\ UNCHANGED << graphVars, propagate_skip, runArgs, error, loopVars,
                    is_stopped, taskVars, nameVars, logVars >>

\* Whether the limit of task's result leaves next_task out (dag.py 207-212).
LimitSkips(task, next_task) ==
    /\ ~limit[task].is_none
    /\ NameOf(next_task) \notin limit_names(limit[task])

\* The skip flags after the limit check for next_task (dag.py 207-213).
SkippedAfterLimit(task, next_task) ==
    IF LimitSkips(task, next_task) THEN skip(is_skipped, next_task)
    ELSE is_skipped

\* Mutant of Unqueued: the "not in tasks" test is left out.
UnqueuedNoListTest(next_task) == ~has_result[next_task]

\* "next_task not in tasks and not next_task.has_result" (dag.py 216).
Unqueued(next_task) == ~InSeq(tasks, next_task) /\ ~has_result[next_task]

\* All predecessors finished or skipped (dag.py 217-218), given skip flags.
PredsReady(next_task, flags) ==
    \A pt \in PredSet(next_task) : is_finished[pt] \/ flags[pt]

\* Mutant of PropagatesSkip: one skipped, propagating predecessor is enough.
PropagatesSkipAny(next_task, flags) ==
    \E pt \in PredSet(next_task) : flags[pt] /\ propagate_skip[pt]

\* Mutant of PropagatesSkip: the propagate_skip flag is read negated.
PropagatesSkipNegated(next_task, flags) ==
    \A pt \in PredSet(next_task) : flags[pt] /\ ~propagate_skip[pt]

\* All predecessors skipped and propagating (dag.py 221-222).
PropagatesSkip(next_task, flags) ==
    \A pt \in PredSet(next_task) : flags[pt] /\ propagate_skip[pt]

\* One iteration of "for next_task in successors(task)" (dag.py 204-228).
SuccStep ==
    /\ pc = "succ"
    /\ si <= Len(successors(cur))
    /\ LET next_task == successors(cur)[si]
           flags == SkippedAfterLimit(cur, next_task)
           ready == PredsReady(next_task, flags)
           prop == Unqueued(next_task) /\ ready
                      /\ PropagatesSkip(next_task, flags)
       IN  /\ is_skipped' = IF prop THEN skip(flags, next_task) ELSE flags
           /\ skip_calls' = skip_calls
                 \cup (IF LimitSkips(cur, next_task)
                       THEN {<<next_task, "limit", cur>>} ELSE {})
                 \cup (IF prop THEN {<<next_task, "propagate", cur>>} ELSE {})
           /\ tasks' = IF Unqueued(next_task) /\ ready /\ ~stopped
                       THEN Append(tasks, next_task) ELSE tasks
           /\ all_successors_queued' =
                 IF Unqueued(next_task) /\ ~ready THEN FALSE
                 ELSE all_successors_queued
    /\ si' = si + 1
    /\ reads' = {cur}
    /\ SignalUntouched
    /\ UNCHANGED left_active
    /\ UNCHANGED cloneVars
    /\ UNCHANGED << graphVars, propagate_skip, runArgs, pc, error, cleanup,
                    stopped, it, cur, is_stopped, has_result, is_finished,
                    limit, nameVars, send_count, sent_data, forget_count >>

\* The successors are done: retire the task if all are queued (dag.py 232-234).
SuccDone ==
    /\ pc = "succ"
    /\ si > Len(successors(cur))
    /\ IF all_successors_queued
       THEN /\ cleanup' = Append(cleanup, cur)
            /\ tasks' = Remove(tasks, cur)
            /\ left_active' = left_active \cup {cur}
       ELSE UNCHANGED << tasks, cleanup, left_active >>
    /\ pc' = "advance"
    /\ reads' = {}
    /\ SignalUntouched
    /\ UNCHANGED cloneVars
    /\ UNCHANGED << graphVars, propagate_skip, runArgs, error, stopped, it,
                    cur, si, all_successors_queued, is_stopped, taskVars,
                    nameVars, logVars >>

\* ------------------------------------------------------------------ spec
\* Dag.__init__ (dag.py 39-46) and freshly constructed tasks.
RunInit ==
    /\ graph_nodes = {}
    /\ graph_edges = {}
    /\ slots = [k \in {} |-> ""]
    /\ defines = 0
    /\ propagate_skip \in PropagateChoices
    /\ config = "None"
    /\ result_expires = 0
    /\ data = <<>>
    /\ order = <<1, 2, 3>>
    /\ pc = "idle"
    /\ error = "none"
    /\ tasks = <<>>
    /\ cleanup = <<>>
    /\ stopped = FALSE
    /\ is_stopped = FALSE
    /\ it = 0
    /\ cur = 1
    /\ si = 1
    /\ all_successors_queued = TRUE
    /\ has_result = [t \in Tasks |-> FALSE]
    /\ is_finished = [t \in Tasks |-> FALSE]
    /\ is_skipped = [t \in Tasks |-> FALSE]
    /\ limit = [t \in Tasks |-> NoLimit]
    /\ dag_name = [t \in Tasks |-> NoneVal]
    /\ workflow_name = [t \in Tasks |-> NoneVal]
    /\ send_count = [t \in Tasks |-> 0]
    /\ sent_data = [t \in Tasks |-> <<>>]
    /\ forget_count = [t \in Tasks |-> 0]
    /\ reads = {}
    /\ skip_calls = {}
    /\ left_active = {}
    /\ signal_reads = 0
    /\ signal_read = FALSE

\* No dag is being copied.
NoDagObjects ==
    /\ dag_objs = <<>>
    /\ graph_objs = <<>>
    /\ slot_objs = <<>>
    /\ task_objs = <<>>
    /\ actor = 0
    /\ mutations = 0

Init == RunInit /\ NoDagObjects

Next ==
    \/ \E i \in 1..Len(Schemas) : Define(i)
    \/ \E cfg \in ConfigChoices, ord \in Orders, exp \in ExpiresChoices,
          d \in DataChoices : RunStart(cfg, ord, exp, d)
    \/ Exit
    \/ CleanupPass
    \/ VisitPending
    \/ VisitRunning
    \/ VisitFinished
    \/ IterEnd
    \/ SuccStep
    \/ SuccDone
    \/ \E n \in Tasks : Finish(n)
    \/ SignalStop
    \/ SignalClear

Spec == Init /\ [][Next]_vars

\* The steps of the control thread inside run().
Scheduler ==
    \/ Exit
    \/ CleanupPass
    \/ VisitPending
    \/ VisitRunning
    \/ VisitFinished
    \/ IterEnd
    \/ SuccStep
    \/ SuccDone

\* The thread that executes run() keeps running, and every dispatched task
\* is eventually completed by a worker.  Nothing is assumed of the signal.
FairSpec ==
    /\ Init /\ [][Next]_vars
    /\ WF_vars(Scheduler)
    /\ \A n \in Tasks : WF_vars(Finish(n))

\* ------------------------------------------------------------- deep copy
\* '{}:{}'.format(self._name, self._copy_counter) (dag.py 250).
FormatName(name, counter) == name \o ":" \o ToString(counter)

\* Mutant of CloneBaseName: the copy is named after the template.
CloneBaseNameTemplate(d) == DagName

\* self._name of the dag that is copied (dag.py 250).
CloneBaseName(d) == dag_objs[d].name

\* The objects behind the references of dag d.
GraphOf(d) == graph_objs[dag_objs[d].graph]

SlotsOfDag(d) == slot_objs[dag_objs[d].slots]

\* The task objects deepcopy meets in the graph and the slot map of dag d.
Reachable(d) ==
    GraphOf(d).nodes \cup {k[1] : k \in DOMAIN SlotsOfDag(d)}
                     \cup {k[2] : k \in DOMAIN SlotsOfDag(d)}

\* memo of one deepcopy call (dag.py 253-254): each task object met is
\* copied once, and the graph and the slot map of the copy share the copies.
\* The copies are allocated after the existing task objects.
Memo(d, t) == Len(task_objs) + Cardinality({u \in Reachable(d) : u <= t})

\* Mutant of CloneSlotsRef: the copy refers to the slot map of the original.
CloneSlotsRefShared(d) == dag_objs[d].slots

\* new_dag._slots = deepcopy(self._slots, memo): a new object (dag.py 254).
CloneSlotsRef(d) == Len(slot_objs) + 1

\* new_dag._graph = deepcopy(self._graph, memo): a new object (dag.py 253).
CloneGraphRef(d) == Len(graph_objs) + 1

\* copy.deepcopy(dag d): Dag.__deepcopy__ (dag.py 249-255).  The field parent
\* is history: the dag the copy was made from.
Clone(d) ==
    /\ d \in 1..Len(dag_objs)
    /\ Len(dag_objs) < MaxDags
    /\ LET copy_counter == dag_objs[d].copy_counter + 1
           new_dag == [name |-> FormatName(CloneBaseName(d), copy_counter),
                       copy_counter |-> 0,
                       graph |-> CloneGraphRef(d),
                       slots |-> CloneSlotsRef(d),
                       parent |-> d]
           g == GraphOf(d)
           sl == SlotsOfDag(d)
           copied == Cardinality(Reachable(d))
       IN  /\ dag_objs' = Append([dag_objs EXCEPT ![d].copy_counter =
                                                      copy_counter], new_dag)
           /\ graph_objs' = Append(graph_objs,
                 [nodes |-> {Memo(d, t) : t \in g.nodes},
                  edges |-> {<<Memo(d, e[1]), Memo(d, e[2])>> : e \in g.edges}])
           /\ slot_objs' = Append(slot_objs,
                 [k \in {<<Memo(d, j[1]), Memo(d, j[2])>> : j \in DOMAIN sl} |->
                     sl[CHOOSE j \in DOMAIN sl :
                            <<Memo(d, j[1]), Memo(d, j[2])>> = k]])
           /\ task_objs' = [i \in 1..(Len(task_objs) + copied) |->
                 IF i <= Len(task_objs) THEN task_objs[i]
                 ELSE task_objs[CHOOSE t \in Reachable(d) : Memo(d, t) = i]]
    /\ actor' = 0
    /\ UNCHANGED mutations
    /\ UNCHANGED runVars

\* self._slots[child][parent] = slot on dag d (dag.py 107).
SetSlot(d, child, parent, slot) ==
    /\ d \in 1..Len(dag_objs)
    /\ mutations < MaxMutations
    /\ child \in GraphOf(d).nodes /\ parent \in GraphOf(d).nodes
    /\ LET sl == SlotsOfDag(d) IN
         slot_objs' = [slot_objs EXCEPT ![dag_objs[d].slots] =
             [k \in (DOMAIN sl) \cup {<<child, parent>>} |->
                 IF k = <<child, parent>> THEN slot ELSE sl[k]]]
    /\ actor' = d
    /\ mutations' = mutations + 1
    /\ UNCHANGED << dag_objs, graph_objs, task_objs >>
    /\ UNCHANGED runVars

\* self._graph.add_edge(parent, child) on dag d (dag.py 103).
AddEdge(d, parent, child) ==
    /\ d \in 1..Len(dag_objs)
    /\ mutations < MaxMutations
    /\ parent \in Reachable(d) /\ child \in Reachable(d)
    /\ graph_objs' = [graph_objs EXCEPT ![dag_objs[d].graph] =
          [nodes |-> @.nodes \cup {parent, child},
           edges |-> @.edges \cup {<<parent, child>>}]]
    /\ actor' = d
    /\ mutations' = mutations + 1
    /\ UNCHANGED << dag_objs, slot_objs, task_objs >>
    /\ UNCHANGED runVars

\* self._graph.clear() on dag d (dag.py 95).
ClearGraph(d) ==
    /\ d \in 1..Len(dag_objs)
    /\ mutations < MaxMutations
    /\ graph_objs' = [graph_objs EXCEPT ![dag_objs[d].graph] =
          [nodes |-> {}, edges |-> {}]]
    /\ actor' = d
    /\ mutations' = mutations + 1
    /\ UNCHANGED << dag_objs, slot_objs, task_objs >>
    /\ UNCHANGED runVars

\* run() of dag d binds the dag name to each node (dag.py 139-141).
BindNames(d) ==
    /\ d \in 1..Len(dag_objs)
    /\ mutations < MaxMutations
    /\ task_objs' = [t \in DOMAIN task_objs |->
          IF t \in GraphOf(d).nodes
          THEN [task_objs[t] EXCEPT !.dag_name = dag_objs[d].name]
          ELSE task_objs[t]]
    /\ actor' = d
    /\ mutations' = mutations + 1
    /\ UNCHANGED << dag_objs, graph_objs, slot_objs >>
    /\ UNCHANGED runVars

\* run() of dag d dispatches node t: task.celery_result is assigned
\* (dag.py 172, 193).
Dispatch(d, t) ==
    /\ d \in 1..Len(dag_objs)
    /\ mutations < MaxMutations
    /\ t \in GraphOf(d).nodes
    /\ ~task_objs[t].has_result
    /\ task_objs' = [task_objs EXCEPT ![t].has_result = TRUE]
    /\ actor' = d
    /\ mutations' = mutations + 1
    /\ UNCHANGED << dag_objs, graph_objs, slot_objs >>
    /\ UNCHANGED runVars

\* The template: a Dag on which define() was called once with a schema over
\* freshly constructed tasks (dag.py 39-46, 95-111).
TemplateInit ==
    \E i \in 1..Len(Schemas) :
        /\ dag_objs = << [name |-> DagName, copy_counter |-> 0, graph |-> 1,
                          slots |-> 1, parent |-> 0] >>
        /\ graph_objs = << [nodes |-> SchemaNodes(Schemas[i]),
                            edges |-> SchemaEdges(Schemas[i])] >>
        /\ slot_objs = << SlotsAfter([k \in {} |-> ""], Schemas[i]) >>
        /\ task_objs = [t \in 1..Cardinality(Tasks) |->
                           [task |-> t, dag_name |-> NoneVal,
                            has_result |-> FALSE]]
        /\ actor = 0
        /\ mutations = 0

CloneInit == RunInit /\ TemplateInit

CloneNext ==
    \/ \E d \in 1..Len(dag_objs) : Clone(d)
    \/ \E d \in 1..Len(dag_objs) :
          \E c, p \in GraphOf(d).nodes : SetSlot(d, c, p, "x")
    \/ \E d \in 1..Len(dag_objs) :
          \E p, c \in Reachable(d) : AddEdge(d, p, c)
    \/ \E d \in 1..Len(dag_objs) : ClearGraph(d)
    \/ \E d \in 1..Len(dag_objs) : BindNames(d)
    \/ \E d \in 1..Len(dag_objs) :
          \E t \in GraphOf(d).nodes : Dispatch(d, t)

CloneSpec == CloneInit /\ [][CloneNext]_vars

\* ---------------------------------------------------------------- claims
Acyclic == is_directed_acyclic_graph(graph_nodes, graph_edges)

\* run() has passed its pre-flight checks and has ended: it returned, or it
\* raised from inside the loop.
RunOver == pc = "done" \/ (pc = "raised" /\ error \in {"KeyError", "AttributeError"})

\* No skip, no limit and no stop signal in play.
NoSkipLimitStop ==
    /\ \A t \in Tasks : limit[t].is_none /\ ~is_skipped[t]
    /\ ~stopped /\ ~is_stopped

\* C1: for an acyclic graph with no skip, no limit and no stop signal in
\* play, a node is dispatched only when each direct predecessor is finished
\* or skipped and it was not dispatched before, and when run() has ended
\* every node of the graph has been dispatched exactly once.
C1_EveryNodeDispatchedOnce ==
    /\ [][(Acyclic /\ NoSkipLimitStop) =>
            \A n \in Tasks : send_count'[n] # send_count[n] =>
                /\ send_count[n] = 0
                /\ \A p \in PredSet(n) : is_finished[p] \/ is_skipped[p]]_vars
    /\ []((Acyclic /\ NoSkipLimitStop /\ RunOver) =>
            \A n \in graph_nodes : send_count[n] = 1)

\* Nothing has been dispatched and no task has been touched.
Untouched ==
    \A t \in Tasks :
        /\ send_count[t] = 0
        /\ ~has_result[t] /\ ~is_finished[t] /\ ~is_skipped[t]
        /\ dag_name[t] = NoneVal /\ workflow_name[t] = NoneVal

\* C2: run() on a cyclic graph raises DirectedAcyclicGraphInvalid (also when
\* config is None), run() with config None on an acyclic graph raises
\* ConfigNotDefinedError, and in both cases nothing was dispatched and no
\* task's run-state or dag/workflow name was changed.
C2_PreflightFailsBeforeDispatch ==
    /\ (pc # "idle" /\ ~Acyclic) =>
          (pc = "raised" /\ error = "DirectedAcyclicGraphInvalid" /\ Untouched)
    /\ (pc # "idle" /\ Acyclic /\ config = "None") =>
          (pc = "raised" /\ error = "ConfigNotDefinedError" /\ Untouched)

C2_Witness ==
    /\ pc = "raised" /\ ~Acyclic /\ config = "None"
    /\ error = "DirectedAcyclicGraphInvalid"

\* A node enters the active set while every direct predecessor is skipped
\* with propagate_skip set: it is skipped as it enters.
SkipPropagatesOnQueuing ==
    [][\A n \in Tasks :
          (/\ ~InSeq(tasks, n) /\ InSeq(tasks', n)
           /\ PredSet(n) # {}
           /\ \A p \in PredSet(n) : is_skipped'[p] /\ propagate_skip[p])
          => is_skipped'[n]]_vars

\* C3 as stated: a node whose direct predecessors are all skipped with
\* propagate_skip becomes skipped, and send_task is never called for a
\* node whose skip flag is set.
C3_SkippedNeverDispatched ==
    /\ SkipPropagatesOnQueuing
    /\ [][\A n \in Tasks : is_skipped[n] => send_count'[n] = send_count[n]]_vars

\* C3 amended: a node that enters the active set while all its direct
\* predecessors are skipped with propagate_skip is skipped as it enters; the
\* skip flag does not suppress the dispatch: no node is sent more than once,
\* and when run() returns every skipped node of the graph has been sent once.
C3_SkippedStillDispatched ==
    /\ SkipPropagatesOnQueuing
    /\ [](\A n \in Tasks : send_count[n] <= 1)
    /\ [](pc = "done" =>
            \A n \in graph_nodes : is_skipped[n] => send_count[n] = 1)

C3_Witness ==
    \E n \in graph_nodes, p \in Tasks :
        /\ <<n, "propagate", p>> \in skip_calls
        /\ is_skipped[n]
        /\ send_count[n] = 1
        /\ pc = "done"

\* The limit of t's result names s: by its name, or as the task itself.
NamedByLimit(t, s) ==
    \/ NameOf(s) \in limit[t].names
    \/ \E x \in limit[t].tasks : NameOf(x) = NameOf(s)

\* C4: when the loop over the successors of a finished task whose result
\* carries a limit has ended, every direct successor whose name is not in
\* the limit has been marked skipped by that task, whatever the state of
\* its other predecessors; and no task is ever marked skipped by the limit
\* of a task whose limit names it.
C4_LimitSkipsSuccessors ==
    /\ (pc = "succ" /\ si > Len(successors(cur)) /\ ~limit[cur].is_none) =>
          \A s \in SuccSet(cur) :
              ~NamedByLimit(cur, s) =>
                  (is_skipped[s] /\ <<s, "limit", cur>> \in skip_calls)
    /\ \A c \in skip_calls :
          c[2] = "limit" => ~NamedByLimit(c[3], c[1])

C4_Witness ==
    /\ pc = "succ" /\ si > Len(successors(cur)) /\ ~limit[cur].is_none
    /\ \E s \in SuccSet(cur), k \in SuccSet(cur) :
          /\ <<s, "limit", cur>> \in skip_calls
          /\ \E p \in PredSet(s) : ~is_finished[p] /\ ~is_skipped[p]
          /\ NamedByLimit(cur, k)
          /\ limit[cur].tasks # {}
          /\ ~is_skipped[k]

\* The dataset of sent_data[n] that stems from predecessor p.
DatasetsOf(n, p) ==
    {i \in 1..Len(sent_data[n]) : sent_data[n][i].name = NameOf(p)}

\* C5: a node with n >= 1 direct predecessors is dispatched with exactly n
\* datasets, one per predecessor, keyed by the predecessor's name and with
\* the slot label stored for (predecessor, node) as its only alias (no alias
\* when none is stored); a node without predecessors is dispatched with the
\* initial data of the run.
C5_AggregatedPayload ==
    \A n \in Tasks : send_count[n] > 0 =>
        IF PredSet(n) = {} THEN sent_data[n] = data
        ELSE /\ Len(sent_data[n]) = Cardinality(PredSet(n))
             /\ \A p \in PredSet(n) :
                   /\ Cardinality(DatasetsOf(n, p)) = 1
                   /\ \A i \in DatasetsOf(n, p) :
                         /\ sent_data[n][i].data = p
                         /\ sent_data[n][i].aliases =
                               IF <<n, p>> \in DOMAIN slots
                               THEN << slots[<<n, p>>] >> ELSE <<>>

C5_Witness ==
    \E n \in graph_nodes :
        /\ send_count[n] = 1
        /\ Cardinality(PredSet(n)) = 2
        /\ \E i, j \in 1..Len(sent_data[n]) :
              /\ sent_data[n][i].aliases = <<"a">>
              /\ sent_data[n][j].aliases = <<"b">>
        /\ \E r \in graph_nodes : PredSet(r) = {} /\ sent_data[r] = data

\* C6 as stated: with result_expires = 0, every node that is in the cleanup
\* list when a cleanup pass starts and whose successors all have a result
\* is forgotten and removed from the list by that pass.
C6_CleanupReleasesAllEligible ==
    [][(pc = "loop" /\ pc' = "advance" /\ result_expires = 0) =>
          \A n \in Tasks :
              (InSeq(cleanup, n) /\ \A s \in SuccSet(n) : has_result[s]) =>
                  (~InSeq(cleanup', n) /\ forget_count'[n] = forget_count[n] + 1)]_vars

\* C8: once stopped is latched it stays latched, no send_task call is made,
\* no node is added to the active set, and no dispatched node loses its
\* result handle or its finished state.
C8_StopLatched ==
    [][stopped =>
          /\ stopped'
          /\ send_count' = send_count
          /\ \A n \in Tasks : InSeq(tasks', n) => InSeq(tasks, n)
          /\ \A n \in Tasks : has_result[n] => has_result'[n]
          /\ \A n \in Tasks : is_finished[n] => is_finished'[n]]_vars

C8_Witness ==
    /\ stopped /\ ~is_stopped
    /\ pc = "advance" /\ it < Len(tasks)
    /\ InSeq(tasks, cur) /\ ~has_result[cur]
    /\ \E n \in Tasks : is_finished[n]

\* C10: forget() is called only by the cleanup pass, only for a node whose
\* direct successors all have a result, at most once per node; and no
\* aggregation or limit check reads the result of a forgotten node.
C10_ForgetOnlyWhenUnneeded ==
    /\ [][\A n \in Tasks : forget_count'[n] # forget_count[n] =>
            /\ pc = "loop" /\ pc' = "advance"
            /\ forget_count[n] = 0 /\ forget_count'[n] = 1
            /\ \A s \in SuccSet(n) : has_result[s]]_vars
    /\ [](\A n \in reads : forget_count[n] = 0)

C10_Witness ==
    /\ \E n \in graph_nodes : forget_count[n] = 1 /\ SuccSet(n) # {}
    /\ \E n \in graph_nodes : forget_count[n] = 0 /\ n \in reads

\* run() is inside its loop.
InLoop == pc \in {"loop", "advance", "succ"}

\* run() has left its loop with both lists empty.
LoopExited == pc = "done" /\ tasks = <<>> /\ cleanup = <<>>

\* C7 as stated: on an acyclic graph, whatever limits the results carry, a
\* run in which the stop signal is never raised leaves its loop with both
\* lists empty, every node of the graph dispatched and finished.  (A run
\* that raises from inside the loop stays at pc = "raised": run() has ended
\* by the exception and takes no further step.)
C7_RunTerminates ==
    (Acyclic /\ InLoop) ~>
        \/ is_stopped \/ stopped
        \/ /\ LoopExited
           /\ \A n \in graph_nodes : send_count[n] = 1 /\ is_finished[n]

\* C9 as stated: once stopped is latched, the run leaves its loop with both
\* lists empty.
C9_StoppedRunTerminates ==
    (stopped /\ InLoop) ~> LoopExited

\* A step of "for task in reversed(tasks)" that visits one task.
VisitStep == pc = "advance" /\ it' = it - 1

\* C12 as stated: during one run signal.is_stopped is read at most once.
C12_SignalReadAtMostOnce == signal_reads <= 1

\* C12, amended: the run reads signal.is_stopped at the start of every visit
\* of a task for as long as no read has returned true; a read latches its
\* value into stopped, and once stopped is set the signal is not read again.
C12_SignalPolledUntilTrue ==
    /\ [][VisitStep => (signal_read' <=> ~stopped)]_vars
    /\ [][signal_read' => stopped' = is_stopped]_vars
    /\ [][stopped => ~signal_read' /\ signal_reads' = signal_reads]_vars

\* Two reads have happened, the second one latched the stop, and a later
\* visit of a finished task went by without another read.
C12_Witness ==
    /\ signal_reads = 2 /\ stopped /\ ~signal_read
    /\ pc = "succ"

\* Some but not all of the direct predecessors of n have a stored label.
MixedLabels(n) ==
    /\ \E p \in PredSet(n) : <<n, p>> \in DOMAIN slots
    /\ \E p \in PredSet(n) : <<n, p>> \notin DOMAIN slots

\* C13 as stated: when a pending node with mixed labels is visited, all of
\* its predecessors having finished and the run not being stopped, the
\* aggregation succeeds and the node is dispatched with one dataset per
\* predecessor: the labelled ones carry their label as alias, the others
\* carry no alias.
C13_MixedLabelsAggregate ==
    [][\A n \in Tasks :
          ( /\ VisitStep /\ IterHasNext /\ tasks[it] = n
            /\ ~has_result[n] /\ MixedLabels(n) /\ ~stopped'
            /\ \A p \in PredSet(n) : has_result[p] /\ is_finished[p] ) =>
              /\ error' = "none"
              /\ send_count'[n] = send_count[n] + 1
              /\ Len(sent_data'[n]) = Cardinality(PredSet(n))
              /\ \A p \in PredSet(n) :
                    \E i \in 1..Len(sent_data'[n]) :
                       /\ sent_data'[n][i].name = NameOf(p)
                       /\ sent_data'[n][i].aliases =
                             IF <<n, p>> \in DOMAIN slots
                             THEN << slots[<<n, p>>] >> ELSE <<>>]_vars

\* The cleanup list a pass leaves behind when the retention policy is not
\* looked at: the pass walks the list by index and drops each visited node
\* whose successors all have a result.
RECURSIVE PolicyFreeCleanup(_, _)
PolicyFreeCleanup(cl, i) ==
    IF i > Len(cl) THEN cl
    ELSE IF \A s \in SuccSet(cl[i]) : has_result[s]
         THEN PolicyFreeCleanup(Remove(cl, cl[i]), i + 1)
         ELSE PolicyFreeCleanup(cl, i + 1)

\* C14: with result_expires # 0 no result is ever forgotten, and whatever
\* the policy a cleanup pass leaves the same cleanup list: it removes nodes
\* whose successors all have a result (at least the first such node of the
\* list) without looking at result_expires, and it leaves the active list
\* alone.
C14_RetentionDoesNotSteerCleanup ==
    /\ [](result_expires # 0 => \A n \in Tasks : forget_count[n] = 0)
    /\ [][(pc = "loop" /\ pc' = "advance") =>
            /\ cleanup' = PolicyFreeCleanup(cleanup, 1)
            /\ tasks' = tasks
            /\ (\E i \in 1..Len(cleanup) :
                    \A s \in SuccSet(cleanup[i]) : has_result[s])
                  => Len(cleanup') < Len(cleanup)]_vars

\* A run that keeps its results has ended: every node was dispatched, went
\* through the cleanup list and left it, and nothing was forgotten.
C14_Witness ==
    /\ result_expires # 0 /\ pc = "done" /\ cleanup = <<>>
    /\ Cardinality(graph_nodes) >= 2
    /\ \A n \in graph_nodes : send_count[n] = 1 /\ forget_count[n] = 0

\* C15 as stated: no step of the scheduler marks a node Skipped that is
\* Finished and was not Skipped before.
C15_FinishedNeverSkipped ==
    [][\A n \in Tasks :
          (is_skipped'[n] /\ ~is_skipped[n]) => ~is_finished[n]]_vars

\* C17 as stated: whenever a pending node with predecessors is visited, so
\* that its input is aggregated, every direct predecessor has a result
\* handle and that handle is finished.
C17_AggregationReadsFinished ==
    [][\A n \in Tasks :
          ( /\ VisitStep /\ IterHasNext /\ tasks[it] = n
            /\ ~has_result[n] /\ PredSet(n) # {} ) =>
              \A p \in PredSet(n) : has_result[p] /\ is_finished[p]]_vars

\* s holds no element twice.
NoDuplicates(s) == \A i, j \in 1..Len(s) : s[i] = s[j] => i = j

\* C18: no node occurs twice in the active list or in the cleanup list, no
\* node is in both, every node of the cleanup list is Finished, and a node
\* that was removed from the active list is never in it again.
C18_ListsDisjointAndOneWay ==
    /\ NoDuplicates(tasks) /\ NoDuplicates(cleanup)
    /\ \A n \in Tasks : ~(InSeq(tasks, n) /\ InSeq(cleanup, n))
    /\ \A n \in Tasks : InSeq(cleanup, n) => is_finished[n]
    /\ \A n \in left_active : ~InSeq(tasks, n)

\* A join: one predecessor has been retired to the cleanup list, the other
\* is still active next to the joined node, which was queued only once.
C18_Witness ==
    \E n \in graph_nodes : \E p, q \in PredSet(n) :
        /\ p # q /\ InSeq(tasks, n) /\ InSeq(tasks, q)
        /\ InSeq(cleanup, p) /\ p \in left_active
        /\ is_finished[q]

\* The slot map a dag holds when only the given schema has been defined.
SlotsOf(schema) == SlotsAfter(<<>>, schema)

\* C19 as stated: after any sequence of define() calls the slot map holds
\* entries only for edges of the current graph, namely those for which the
\* most recent schema (one that builds the current graph) gave a non-empty,
\* non-none label.
C19_SlotsMatchLatestDefine ==
    /\ \A k \in DOMAIN slots : <<k[2], k[1]>> \in graph_edges
    /\ defines > 0 =>
          \E i \in 1..Len(Schemas) :
              /\ graph_edges = SchemaEdges(Schemas[i])
              /\ graph_nodes = SchemaNodes(Schemas[i])
              /\ slots = SlotsOf(Schemas[i])

\* C20: a step marks a node Skipped only if a finished direct predecessor
\* carries a limit that leaves the node's name out, or if the node is up for
\* queuing (not active, no result) and all of its direct predecessors, of
\* which there is at least one, are Skipped with propagate_skip set.  Hence
\* a node without predecessors is never Skipped, and while no result carries
\* a limit no node is Skipped.
C20_SkipHasCause ==
    /\ [][\A n \in Tasks : (is_skipped'[n] /\ ~is_skipped[n]) =>
            \/ \E p \in PredSet(n) :
                  /\ is_finished[p] /\ ~limit[p].is_none
                  /\ ~NamedByLimit(p, n)
            \/ /\ PredSet(n) # {}
               /\ ~InSeq(tasks, n) /\ ~has_result[n]
               /\ \A p \in PredSet(n) : is_skipped'[p] /\ propagate_skip[p]]_vars
    /\ [](\A n \in graph_nodes : PredSet(n) = {} => ~is_skipped[n])
    /\ []((\A p \in Tasks : limit[p].is_none) =>
              \A n \in Tasks : ~is_skipped[n])

\* Both causes have acted in one run: a node was skipped by a limit, and a
\* node whose only predecessor is that skipped, propagating node was
\* skipped by propagation, while the root stayed unskipped.
C20_Witness ==
    \E n, m \in graph_nodes :
        /\ n # m /\ PredSet(m) = {n} /\ propagate_skip[n]
        /\ \E p \in PredSet(n) : <<n, "limit", p>> \in skip_calls
        /\ \E b \in Tasks : <<m, "propagate", b>> \in skip_calls
        /\ \A q \in PredSet(m) : ~NamedByLimit(q, m) => limit[q].is_none
        /\ is_skipped[n] /\ is_skipped[m]
        /\ \E r \in graph_nodes : PredSet(r) = {} /\ ~is_skipped[r]

\* What dag d looks like from outside, in terms of the tasks of the
\* template: its nodes with their run state, its edges and its slot labels.
View(d) ==
    [nodes |-> {task_objs[t] : t \in GraphOf(d).nodes},
     edges |-> {<<task_objs[e[1]].task, task_objs[e[2]].task>> :
                   e \in GraphOf(d).edges},
     slots |-> {<<task_objs[k[1]].task, task_objs[k[2]].task,
                  SlotsOfDag(d)[k]>> : k \in DOMAIN SlotsOfDag(d)}]

\* The copies made of dag d, in the order they were made.
ClonesOf(d) == {c \in 1..Len(dag_objs) : dag_objs[c].parent = d}

\* C11: a copy starts out with the graph, the slot map and the node state
\* of the dag it was made from; from then on an operation on one dag (its
\* slot map, its graph, the run state of its nodes) changes nothing of what
\* any other dag looks like; and the first and the second copy of the
\* template are named after the template with the counter values 1 and 2.
C11_ClonesIndependent ==
    /\ [][\A d \in 1..Len(dag_objs) : d # actor' => View(d)' = View(d)]_vars
    /\ [][\A c \in 1..(MaxDags + 1) :
             (c = Len(dag_objs') /\ c > Len(dag_objs)) =>
                 \E p \in 1..Len(dag_objs) :
                     /\ p = dag_objs'[c].parent
                     /\ View(c)' = View(p)]_vars
    /\ [](\A c \in ClonesOf(1) :
             /\ Cardinality({b \in ClonesOf(1) : b <= c}) = 1
                   => dag_objs[c].name = "myDag:1"
             /\ Cardinality({b \in ClonesOf(1) : b <= c}) = 2
                   => dag_objs[c].name = "myDag:2")

\* The template was copied twice and the slot map of each copy was changed
\* afterwards: the three dags differ in their slot maps only.
C11_Witness ==
    /\ Len(dag_objs) = 3 /\ ClonesOf(1) = {2, 3}
    /\ dag_objs[2].name = "myDag:1" /\ dag_objs[3].name = "myDag:2"
    /\ View(1).slots # View(2).slots
    /\ View(1).slots # View(3).slots
    /\ View(2).slots # View(3).slots
    /\ View(1).slots # {}
    /\ View(1).edges = View(2).edges /\ View(1).edges = View(3).edges

\* C16: whatever is copied, the template or a copy of it, every dag has a
\* name of its own; the counter stays with the dag that was copied and
\* counts its copies, so that the n-th copy of a dag is named after that
\* dag with n appended.
C16_CloneNamesDistinct ==
    /\ \A i, j \in 1..Len(dag_objs) :
          i # j => dag_objs[i].name # dag_objs[j].name
    /\ \A d \in 1..Len(dag_objs) :
          dag_objs[d].copy_counter = Cardinality(ClonesOf(d))
    /\ \A c \in 2..Len(dag_objs) :
          dag_objs[c].name =
              dag_objs[dag_objs[c].parent].name \o ":" \o
                  ToString(Cardinality({b \in ClonesOf(dag_objs[c].parent) :
                                           b <= c}))

\* A copy of the template was copied in turn.
C16_Witness ==
    /\ Len(dag_objs) = 3
    /\ dag_objs[2].parent = 1 /\ dag_objs[3].parent = 2
    /\ dag_objs[1].copy_counter = 1 /\ dag_objs[2].copy_counter = 1
    /\ dag_objs[3].name = "myDag:1:1"
====
